---- MODULE Spec2Model ----
(***************************************************************************)
(* Model of vtil::emulator (src/amd64/emulator.cpp): a register file that  *)
(* is laid out in memory as scratch stack + saved rsp + rip + 15 general   *)
(* purpose slots + flags slot, its byte-wise accessors set/get/resolve,    *)
(* and the inline-assembly invoke() that swaps the file with the live      *)
(* hardware registers around a native call.                                *)
(*                                                                         *)
(* 64-bit values are little-endian tuples of 8 bytes (index 1 is the least *)
(* significant byte); the file is a byte array addressed from `this`.      *)
(*                                                                         *)
(* SpecThreads runs two emulators on two threads in one memory; SpecHash   *)
(* is vtil::hash_t (src/util/hashable.hpp), a 128-bit FNV hash.            *)
(***************************************************************************)
EXTENDS Integers, Sequences, FiniteSets, TLC

\* ------------------------------------------------------------ bounds
\* Number of mutating operations (set / invoke) a behaviour performs.
MaxOps == 3

\* Number of items a behaviour appends to a hash.
MaxItems == 3

\* ------------------------------------------------------------ 64-bit words
Byte == 0..255
ByteIdx == 1..8
Zero64 == [i \in ByteIdx |-> 0]

\* Bit i (0..7) of a byte.
Bit(b, i) == (b \div (2 ^ i)) % 2

\* Little-endian word of a small non-negative integer (n < 2^24).
WordOf(n) == [i \in ByteIdx |-> IF i <= 3 THEN (n \div (256 ^ (i - 1))) % 256 ELSE 0]

\* The integer of a word when it is below 2^24, else -1 (not an address of the model).
IntOf(w) == IF \A i \in 4..8 : w[i] = 0 THEN w[1] + 256 * w[2] + 65536 * w[3] ELSE -1

\* Carry into byte i of a + b (i = 9: the carry out of bit 63).
RECURSIVE CarryInto(_, _, _)
CarryInto(a, b, i) ==
  IF i = 1 THEN 0 ELSE (a[i - 1] + b[i - 1] + CarryInto(a, b, i - 1)) \div 256

\* a + b mod 2^64.
Add64(a, b) == [i \in ByteIdx |-> (a[i] + b[i] + CarryInto(a, b, i)) % 256]

\* -8 mod 2^64, the stack pointer delta of a push.
MinusEight == [i \in ByteIdx |-> IF i = 1 THEN 248 ELSE 255]
PlusEight == WordOf(8)

\* Bits of `new` where mask has a 1, bits of `old` elsewhere (one byte).
RECURSIVE MergeBits(_, _, _, _)
MergeBits(old, new, mask, i) ==
  IF i > 7 THEN 0
  ELSE (2 ^ i) * (IF Bit(mask, i) = 1 THEN Bit(new, i) ELSE Bit(old, i))
       + MergeBits(old, new, mask, i + 1)

\* (old & ~mask) | (new & mask) on 64-bit words.
Merge64(old, new, mask) == [i \in ByteIdx |-> MergeBits(old[i], new[i], mask[i], 0)]

\* ------------------------------------------------------------ layout of the file
\* emulator::reserved_stack_size: bytes of the scratch stack at the start of the file.
reserved_stack_size == 32

\* static constexpr uint32_t sd = emulator::reserved_stack_size;
sd == reserved_stack_size

\* The general purpose registers, in the order invoke() exchanges them.
GPR == <<"rax", "rbx", "rcx", "rdx", "rsi", "rdi", "rbp", "r8",
         "r9", "r10", "r11", "r12", "r13", "r14", "r15">>
GPRSet == {GPR[i] : i \in 1..Len(GPR)}
GPRIndex(r) == CHOOSE i \in 1..Len(GPR) : GPR[i] = r

\* Byte offsets of the members from `this`.
off___rsp == reserved_stack_size
off___rip == reserved_stack_size + 8
off_v(r) == reserved_stack_size + 16 + 8 * (GPRIndex(r) - 1)
off_v_rflags == reserved_stack_size + 16 + 8 * Len(GPR)
FileSize == off_v_rflags + 8
FileOffs == 0..(FileSize - 1)

\* Address of the emulator object.
ThisAddr == 65536
this == WordOf(ThisAddr)

\* ------------------------------------------------------------ memory
\* Offset in the file of the 8 bytes at address a, or -1 when they are not all in it.
FileOff(a) ==
  LET n == IntOf(a) IN
  IF n >= ThisAddr /\ n + 8 <= ThisAddr + FileSize THEN n - ThisAddr ELSE -1

Mapped(a) == FileOff(a) >= 0

\* The 8 bytes of m at offset o.
Load64(m, o) == [i \in ByteIdx |-> m[o + i - 1]]

\* m with the 8 bytes at offset o replaced by w.
Store64(m, o, w) == [x \in DOMAIN m |-> IF x >= o /\ x < o + 8 THEN w[x - o + 1] ELSE m[x]]

\* memcpy( dst + off, &value, sz ): the low sz bytes of value into m at off.
memcpy_to(m, off, value, sz) ==
  [x \in DOMAIN m |-> IF x >= off /\ x < off + sz THEN value[x - off + 1] ELSE m[x]]

\* memcpy( &value, src + off, sz ) into a zero-initialised value.
memcpy_from(m, off, sz) ==
  [i \in ByteIdx |-> IF i <= sz THEN m[off + i - 1] ELSE 0]

\* ------------------------------------------------------------ register identifiers
\* x86::resolve_mapping( reg ): the base register, the byte offset inside it and the
\* size in bytes of an architectural register.
Family(r64, r32, r16, r8) ==
  { <<r64, r64, 0, 8>>, <<r32, r64, 0, 4>>, <<r16, r64, 0, 2>>, <<r8, r64, 0, 1>> }

Mappings ==
  Family("RAX", "EAX", "AX", "AL") \cup { <<"AH", "RAX", 1, 1>> } \cup
  Family("RBX", "EBX", "BX", "BL") \cup { <<"BH", "RBX", 1, 1>> } \cup
  Family("RCX", "ECX", "CX", "CL") \cup { <<"CH", "RCX", 1, 1>> } \cup
  Family("RDX", "EDX", "DX", "DL") \cup { <<"DH", "RDX", 1, 1>> } \cup
  Family("RSI", "ESI", "SI", "SIL") \cup
  Family("RDI", "EDI", "DI", "DIL") \cup
  Family("RBP", "EBP", "BP", "BPL") \cup
  Family("RSP", "ESP", "SP", "SPL") \cup
  Family("R8", "R8D", "R8W", "R8B") \cup
  Family("R9", "R9D", "R9W", "R9B") \cup
  Family("R10", "R10D", "R10W", "R10B") \cup
  Family("R11", "R11D", "R11W", "R11B") \cup
  Family("R12", "R12D", "R12W", "R12B") \cup
  Family("R13", "R13D", "R13W", "R13B") \cup
  Family("R14", "R14D", "R14W", "R14B") \cup
  Family("R15", "R15D", "R15W", "R15B") \cup
  { <<"RIP", "RIP", 0, 8>>, <<"EIP", "RIP", 0, 4>>, <<"IP", "RIP", 0, 2>> } \cup
  { <<"EFLAGS", "EFLAGS", 0, 8>> }

RegIds == {t[1] : t \in Mappings}

resolve_mapping(reg) ==
  LET t == CHOOSE t \in Mappings : t[1] = reg
  IN  [base_reg |-> t[2], offset |-> t[3], size |-> t[4]]

\* unreachable(): the fatal path, the process is terminated.
unreachable == "fatal"

\* The switch of emulator::resolve: the member a base register is stored in.
SwitchBase ==
  [b \in {"RAX", "RBP", "RBX", "RCX", "RDI", "RDX", "RSI", "R8", "R9", "R10",
          "R11", "R12", "R13", "R14", "R15"} |->
     CASE b = "RAX" -> "rax" [] b = "RBP" -> "rbp" [] b = "RBX" -> "rbx"
       [] b = "RCX" -> "rcx" [] b = "RDI" -> "rdi" [] b = "RDX" -> "rdx"
       [] b = "RSI" -> "rsi" [] b = "R8" -> "r8"   [] b = "R9" -> "r9"
       [] b = "R10" -> "r10" [] b = "R11" -> "r11" [] b = "R12" -> "r12"
       [] b = "R13" -> "r13" [] b = "R14" -> "r14" [] b = "R15" -> "r15"]

\* Faulty variant: a case for the stack pointer, stored in __rsp.
resolveWithRsp(reg) ==
  LET m == resolve_mapping(reg) IN
  IF m.base_reg \in DOMAIN SwitchBase
  THEN [fatal |-> FALSE, off |-> off_v(SwitchBase[m.base_reg]) + m.offset, sz |-> m.size]
  ELSE IF m.base_reg = "RSP"
  THEN [fatal |-> FALSE, off |-> off___rsp + m.offset, sz |-> m.size]
  ELSE [fatal |-> TRUE, off |-> 0, sz |-> 0]

\* Faulty variant: a case for the flags register, stored in v_rflags.
resolveWithFlags(reg) ==
  LET m == resolve_mapping(reg) IN
  IF m.base_reg \in DOMAIN SwitchBase
  THEN [fatal |-> FALSE, off |-> off_v(SwitchBase[m.base_reg]) + m.offset, sz |-> m.size]
  ELSE IF m.base_reg = "EFLAGS"
  THEN [fatal |-> FALSE, off |-> off_v_rflags + m.offset, sz |-> m.size]
  ELSE [fatal |-> TRUE, off |-> 0, sz |-> 0]

\* Faulty variant: the offset of the alias inside its base register is dropped.
resolveSlotBase(reg) ==
  LET m == resolve_mapping(reg) IN
  IF m.base_reg \in DOMAIN SwitchBase
  THEN [fatal |-> FALSE, off |-> off_v(SwitchBase[m.base_reg]), sz |-> m.size]
  ELSE [fatal |-> TRUE, off |-> 0, sz |-> 0]

\* emulator::resolve( reg ): the offset from `this` and the size, or the fatal path
\* of the default case.
resolve(reg) ==
  LET m == resolve_mapping(reg) IN
  IF m.base_reg \in DOMAIN SwitchBase
  THEN [fatal |-> FALSE, off |-> off_v(SwitchBase[m.base_reg]) + m.offset, sz |-> m.size]
  ELSE [fatal |-> TRUE, off |-> 0, sz |-> 0]

\* Faulty variant: a 4-byte write zero-extends into the whole slot, as the hardware does.
setZeroExtend32(m, reg, value) ==
  IF resolve(reg).sz = 4
  THEN memcpy_to(m, resolve(reg).off, [i \in ByteIdx |-> IF i <= 4 THEN value[i] ELSE 0], 8)
  ELSE memcpy_to(m, resolve(reg).off, value, resolve(reg).sz)

\* Faulty variant: copies sizeof( value ) bytes instead of the resolved size.
setSizeofValue(m, reg, value) == memcpy_to(m, resolve(reg).off, value, 8)

\* emulator::set( reg, value ) on the file bytes m (resolve has not taken the fatal path).
set(m, reg, value) == memcpy_to(m, resolve(reg).off, value, resolve(reg).sz)

\* Faulty variant: copies sizeof( value ) bytes instead of the resolved size.
getSizeofValue(m, reg) == memcpy_from(m, resolve(reg).off, 8)

\* emulator::get( reg ) on the file bytes m (resolve has not taken the fatal path).
get(m, reg) == memcpy_from(m, resolve(reg).off, resolve(reg).sz)

\* ------------------------------------------------------------ inputs
\* Register identifiers the caller passes to set and get.
TestRegs == {"RAX", "EAX", "AH", "RCX", "RDX", "RSP", "EFLAGS"}

\* Values the caller passes to set.
TestValues ==
  { <<1, 2, 3, 4, 5, 6, 7, 8>>,
    <<255, 255, 255, 255, 238, 221, 204, 187>> }

\* Contexts the program starts in: hardware registers, flags, stack pointer and the
\* (unspecified) contents of a freshly constructed file.
Ctxs == {0, 1}
CtxReg(k) == [r \in GPRSet |-> [j \in ByteIdx |-> (16 * GPRIndex(r) + j + k) % 256]]
CtxFlags(k) == IF k = 0 THEN WordOf(514) ELSE WordOf(647)
CtxRsp(k) == WordOf(28672 + 256 * k)
CtxMem(k) ==
  [o \in FileOffs |->
     IF o >= off_v_rflags
     THEN (IF k = 0 THEN WordOf(582) ELSE WordOf(515))[o - off_v_rflags + 1]
     ELSE (3 * o + 5 + k) % 256]

\* ------------------------------------------------------------ native routines
\* The routines the caller invokes (machine code outside the repository):
\*   ret_only : ret
\*   lea_add  : lea rax, [rcx + rdx] ; ret
\*   clobber  : mov rbx, imm64 ; mov r15, imm64 ; stc ; ret
\*   home_args: mov [rsp+8], rcx ; mov [rsp+16], rdx ; mov [rsp+24], r8 ;
\*              mov [rsp+32], r9 ; ret     (spills its register arguments to the
\*              32 bytes the calling convention reserves above the return address)
\*   deep_frame: lea rsp, [rsp-40] ; mov [rsp], rcx ; mov [rsp+32], rdx ;
\*              lea rsp, [rsp+40] ; ret     (a frame of 40 bytes under the return
\*              address: 48 bytes of stack, more than reserved_stack_size)
Routines == <<"ret_only", "lea_add", "clobber", "home_args", "deep_frame">>
RoutineSet == {Routines[i] : i \in 1..Len(Routines)}
RoutinePointer(rt) == WordOf(8192 + 16 * (CHOOSE i \in 1..Len(Routines) : Routines[i] = rt))
RoutineAt(a) == IF \E rt \in RoutineSet : RoutinePointer(rt) = a
                THEN CHOOSE rt \in RoutineSet : RoutinePointer(rt) = a
                ELSE "none"

ClobberRbx == <<17, 34, 51, 68, 85, 102, 119, 136>>
ClobberR15 == <<201, 202, 203, 204, 205, 206, 207, 208>>

\* The hardware registers when the routine executes its ret.
RoutineRegs(rt, g) ==
  CASE rt = "lea_add" -> [g EXCEPT !["rax"] = Add64(g["rcx"], g["rdx"])]
    [] rt = "clobber" -> [g EXCEPT !["rbx"] = ClobberRbx, !["r15"] = ClobberR15]
    [] OTHER -> g

\* The hardware flags when the routine executes its ret (stc sets CF, bit 0).
RoutineFlags(rt, f) ==
  IF rt = "clobber" THEN [f EXCEPT ![1] = f[1] - Bit(f[1], 0) + 1] ELSE f

\* The stores of the routine: <<displacement from the stack pointer at its entry,
\* register stored>>.
RoutineStores(rt) ==
  CASE rt = "home_args" -> << <<8, "rcx">>, <<16, "rdx">>, <<24, "r8">>, <<32, "r9">> >>
    [] rt = "deep_frame" -> << <<-40, "rcx">>, <<-8, "rdx">> >>
    [] OTHER -> << >>

\* Bytes of stack the routine uses under the stack pointer it is called with (its
\* return address included).
RoutineDepth(rt) == IF rt = "deep_frame" THEN 48 ELSE 8

\* Bytes beneath the emulator object that belong to whatever precedes it in memory.
BelowSpan == 64

\* Faulty variant: a displacement is taken by its magnitude (the frame grows upwards).
DispWordUp(d) == IF d >= 0 THEN WordOf(d) ELSE WordOf(0 - d)

\* The 64-bit two's complement word of a displacement d (-256 < d < 2^24).
DispWord(d) == IF d >= 0 THEN WordOf(d) ELSE [i \in ByteIdx |-> IF i = 1 THEN 256 + d ELSE 255]

\* The 8 bytes at address a lie beneath the file, in the memory that precedes it.
Beneath(a) == IntOf(a) >= ThisAddr - BelowSpan /\ IntOf(a) + 8 <= ThisAddr

\* Address of the i-th store of the routine, with stack pointer s at its entry.
RoutineStoreAddr(rt, s, i) == Add64(s, DispWord(RoutineStores(rt)[i][1]))

\* All stores of the routine hit the file or the memory beneath it.
RoutineMapped(rt, s) ==
  \A i \in 1..Len(RoutineStores(rt)) :
    Mapped(RoutineStoreAddr(rt, s, i)) \/ Beneath(RoutineStoreAddr(rt, s, i))

\* The offsets from `this` of the bytes the routine stores beneath the file.
RoutineBelow(rt, s) ==
  {IntOf(RoutineStoreAddr(rt, s, i)) - ThisAddr + j :
     i \in {k \in 1..Len(RoutineStores(rt)) : Beneath(RoutineStoreAddr(rt, s, k))},
     j \in 0..7}

\* The file after the first n stores of the routine.
RECURSIVE RoutineMem(_, _, _, _, _)
RoutineMem(rt, m, g, s, n) ==
  IF n = 0 THEN m
  ELSE IF Mapped(RoutineStoreAddr(rt, s, n))
  THEN Store64(RoutineMem(rt, m, g, s, n - 1),
               FileOff(RoutineStoreAddr(rt, s, n)),
               g[RoutineStores(rt)[n][2]])
  ELSE RoutineMem(rt, m, g, s, n - 1)

\* ------------------------------------------------------------ the assembly of invoke
\* Displacement of a member operand written [ rsp - sd ] emulator.member.
Disp(off) == off - sd

\* Faulty variant: the second exchange names the third slot (rbx with v_rcx).
XchgBlockSlip ==
  [i \in 1..Len(GPR) |->
     [op |-> "xchg", r |-> GPR[i], disp |-> Disp(off_v(GPR[IF i = 2 THEN 3 ELSE i]))]]

XchgBlock == [i \in 1..Len(GPR) |-> [op |-> "xchg", r |-> GPR[i], disp |-> Disp(off_v(GPR[i]))]]

FlagsBlock ==
  << [op |-> "pushfq", r |-> "", disp |-> 0],
     [op |-> "push_mem", r |-> "", disp |-> Disp(off_v_rflags)],
     [op |-> "popfq", r |-> "", disp |-> 0],
     [op |-> "pop_mem", r |-> "", disp |-> Disp(off_v_rflags)] >>

\* The instructions of the _asm block, in order.
Program ==
  << [op |-> "mov_rax_rsp", r |-> "rax", disp |-> 0],
     [op |-> "mov_rsp_this", r |-> "", disp |-> 0],
     [op |-> "add_rsp_sd", r |-> "", disp |-> 0],
     [op |-> "mov_mem_rax", r |-> "rax", disp |-> Disp(off___rsp)] >>
  \o XchgBlock \o FlagsBlock
  \o << [op |-> "call_mem", r |-> "", disp |-> Disp(off___rip)] >>
  \o FlagsBlock \o XchgBlock
  \o << [op |-> "mov_rsp_mem", r |-> "", disp |-> Disp(off___rsp)] >>

\* Code address of instruction i of the block (the call pushes that of its successor).
CodeAddr(i) == WordOf(4096 + i)
CodeIndex(a) == IntOf(a) - 4096

\* Flag bits POPFQ may change at user privilege: CF PF AF ZF SF TF DF OF NT AC ID.
PopfMask == <<213, 77, 36, 0, 0, 0, 0, 0>>
\* Flag bits PUSHFQ stores: all but RF and VM.
PushfMask == <<255, 255, 252, 255, 255, 255, 255, 255>>
\* Status flags ADD defines: CF PF AF ZF SF (byte 1) and OF (bit 11).
ArithMask == <<213, 8, 0, 0, 0, 0, 0, 0>>

\* 1 when the byte has an even number of 1 bits (PF).
Parity(b) ==
  1 - ((Bit(b, 0) + Bit(b, 1) + Bit(b, 2) + Bit(b, 3)
        + Bit(b, 4) + Bit(b, 5) + Bit(b, 6) + Bit(b, 7)) % 2)

\* The flags after ADD a, b with the flags f before it.
AddFlags(f, a, b) ==
  LET res == Add64(a, b)
      cf == CarryInto(a, b, 9)
      pf == Parity(res[1])
      af == ((a[1] % 16) + (b[1] % 16)) \div 16
      zf == IF res = Zero64 THEN 1 ELSE 0
      sf == Bit(res[8], 7)
      of == IF Bit(a[8], 7) = Bit(b[8], 7) /\ Bit(res[8], 7) # Bit(a[8], 7) THEN 1 ELSE 0
      new == [i \in ByteIdx |->
                IF i = 1 THEN cf + 4 * pf + 16 * af + 64 * zf + 128 * sf
                ELSE IF i = 2 THEN 8 * of ELSE 0]
  IN  Merge64(f, new, ArithMask)

\* ------------------------------------------------------------ state
VARIABLES
  mem,      \* the bytes of the emulator object, by offset from `this`
  reg,      \* hardware general purpose registers
  rsp,      \* hardware stack pointer
  rflags,   \* hardware flags
  pc,       \* "caller", "asm" (inside the _asm block), "routine", "fault", "fatal"
  ip,       \* index into Program of the next instruction while pc = "asm", else 0
  routine,  \* the routine control is in while pc = "routine", else "none"
  nops,     \* set / invoke operations started
  last,     \* the most recent set / invoke
  prev,     \* the set / invoke before it
  got,      \* the most recent get since `last`
  pre,      \* machine state when the most recent invoke was called
  entry,    \* machine state when control last reached a routine's entry point
  exit,     \* machine state when a routine last returned
  below,    \* offsets from `this` (negative) of the bytes the last routine stored beneath the file
  heap,     \* two threads: the memory holding the two emulator objects, by offset from ThisAddr
  thr,      \* two threads: hardware context and position of each thread
  solo,     \* two threads: where each thread ends when it runs with the other one not started
  hash      \* hash_t: the value, the seed it was constructed with, the bytes appended

vars == <<mem, reg, rsp, rflags, pc, ip, routine, nops, last, prev, got, pre, entry, exit,
          below, heap, thr, solo, hash>>
emulator == <<mem, reg, rsp, rflags, pc, ip, routine, nops, last, prev, got, pre, entry, exit,
              below>>
others == <<heap, thr, solo, hash>>
rest == <<below, others>>
machine == <<mem, reg, rsp, rflags>>
history == <<pre, entry, exit>>

NoOp == [op |-> "none", reg |-> "none", value |-> Zero64]
NoGet == [reg |-> "none", ret |-> Zero64]
Snap(m, g, s, f) == [mem |-> m, reg |-> g, rsp |-> s, rflags |-> f]

\* The state after construction of one emulator, in caller context k.
InitEmulator(k) ==
  /\ mem = CtxMem(k)
  /\ reg = CtxReg(k)
  /\ rsp = CtxRsp(k)
  /\ rflags = CtxFlags(k)
  /\ pc = "caller"
  /\ ip = 0
  /\ routine = "none"
  /\ nops = 0
  /\ last = NoOp
  /\ prev = NoOp
  /\ got = NoGet
  /\ pre = Snap(CtxMem(k), CtxReg(k), CtxRsp(k), CtxFlags(k))
  /\ entry = pre
  /\ exit = pre
  /\ below = {}

\* No second thread and no hash object.
NoThreads == heap = << >> /\ thr = << >> /\ solo = << >>
NoHash ==
  hash = [value |-> <<Zero64, Zero64>>, seed |-> <<Zero64, Zero64>>, bytes |-> << >>,
          items |-> 0]

Init == (\E k \in Ctxs : InitEmulator(k)) /\ NoThreads /\ NoHash

\* ------------------------------------------------------------ accessors
\* emulator& emulator::set( x86_reg reg, uint64_t value )
Set(r, v) ==
  /\ pc = "caller"
  /\ nops < MaxOps
  /\ nops' = nops + 1
  /\ IF resolve(r).fatal
     THEN /\ pc' = unreachable
          /\ mem' = mem
     ELSE /\ pc' = pc
          /\ mem' = set(mem, r, v)
  /\ prev' = last
  /\ last' = [op |-> "set", reg |-> r, value |-> v]
  /\ got' = NoGet
  /\ UNCHANGED <<reg, rsp, rflags, ip, routine, history, rest>>

\* uint64_t emulator::get( x86_reg reg ) const
Get(r) ==
  /\ pc = "caller"
  /\ IF resolve(r).fatal
     THEN /\ pc' = unreachable
          /\ got' = [reg |-> r, ret |-> Zero64]
     ELSE /\ pc' = pc
          /\ got' = [reg |-> r, ret |-> get(mem, r)]
  /\ UNCHANGED <<mem, reg, rsp, rflags, ip, routine, nops, last, prev, history, rest>>

\* ------------------------------------------------------------ invoke
\* TF (bit 8) set when an instruction starts: the single-step trap is taken after it.
TrapFlag == Bit(rflags[2], 0) = 1

\* Where control is after the instruction at ip, when it neither faults nor branches.
Fallthrough ==
  IF TrapFlag THEN /\ pc' = "fault" /\ ip' = 0
  ELSE IF ip = Len(Program) THEN /\ pc' = "caller" /\ ip' = 0
  ELSE /\ pc' = "asm" /\ ip' = ip + 1

Fault == /\ pc' = "fault" /\ ip' = 0

At(opname) == pc = "asm" /\ Program[ip].op = opname

\* Effective address of the memory operand of the instruction at ip, with stack pointer s.
EffAddr(s) == Add64(s, WordOf(Program[ip].disp))

\* emulator::invoke( routine_pointer ) up to the _asm block: __rip = routine_pointer.
Invoke(rt) ==
  /\ pc = "caller"
  /\ nops < MaxOps
  /\ nops' = nops + 1
  /\ mem' = Store64(mem, off___rip, RoutinePointer(rt))
  /\ pc' = "asm"
  /\ ip' = 1
  /\ prev' = last
  /\ last' = [op |-> "invoke", reg |-> rt, value |-> RoutinePointer(rt)]
  /\ got' = NoGet
  /\ pre' = Snap(mem, reg, rsp, rflags)
  /\ UNCHANGED <<reg, rsp, rflags, routine, entry, exit, rest>>

\* Faulty variant: the stack pointer is copied after it was replaced (rax receives `this`).
MovRaxRspLate ==
  /\ At("mov_rax_rsp")
  /\ reg' = [reg EXCEPT !["rax"] = this]
  /\ Fallthrough
  /\ UNCHANGED <<mem, rsp, rflags, routine, nops, last, prev, got, history, rest>>

\* mov rax, rsp
MovRaxRsp ==
  /\ At("mov_rax_rsp")
  /\ reg' = [reg EXCEPT !["rax"] = rsp]
  /\ Fallthrough
  /\ UNCHANGED <<mem, rsp, rflags, routine, nops, last, prev, got, history, rest>>

\* mov rsp, this
MovRspThis ==
  /\ At("mov_rsp_this")
  /\ rsp' = this
  /\ Fallthrough
  /\ UNCHANGED <<mem, reg, rflags, routine, nops, last, prev, got, history, rest>>

\* add rsp, sd
AddRspSd ==
  /\ At("add_rsp_sd")
  /\ rsp' = Add64(rsp, WordOf(sd))
  /\ rflags' = AddFlags(rflags, rsp, WordOf(sd))
  /\ Fallthrough
  /\ UNCHANGED <<mem, reg, routine, nops, last, prev, got, history, rest>>

\* mov [ rsp - sd ] emulator.__rsp, rax
MovMemRax ==
  /\ At("mov_mem_rax")
  /\ IF Mapped(EffAddr(rsp))
     THEN /\ mem' = Store64(mem, FileOff(EffAddr(rsp)), reg[Program[ip].r])
          /\ Fallthrough
     ELSE /\ mem' = mem
          /\ Fault
  /\ UNCHANGED <<reg, rsp, rflags, routine, nops, last, prev, got, history, rest>>

\* Faulty variant: mov r, [slot] instead of xchg (a copy, not an exchange).
XchgAsLoad ==
  /\ At("xchg")
  /\ IF Mapped(EffAddr(rsp))
     THEN /\ mem' = mem
          /\ reg' = [reg EXCEPT ![Program[ip].r] = Load64(mem, FileOff(EffAddr(rsp)))]
          /\ Fallthrough
     ELSE /\ UNCHANGED <<mem, reg>>
          /\ Fault
  /\ UNCHANGED <<rsp, rflags, routine, nops, last, prev, got, history, rest>>

\* Faulty variant: mov [slot], r instead of xchg (a copy, not an exchange).
XchgAsStore ==
  /\ At("xchg")
  /\ IF Mapped(EffAddr(rsp))
     THEN /\ mem' = Store64(mem, FileOff(EffAddr(rsp)), reg[Program[ip].r])
          /\ reg' = reg
          /\ Fallthrough
     ELSE /\ UNCHANGED <<mem, reg>>
          /\ Fault
  /\ UNCHANGED <<rsp, rflags, routine, nops, last, prev, got, history, rest>>

\* xchg r, [ rsp - sd ] emulator.v_r
Xchg ==
  /\ At("xchg")
  /\ IF Mapped(EffAddr(rsp))
     THEN /\ mem' = Store64(mem, FileOff(EffAddr(rsp)), reg[Program[ip].r])
          /\ reg' = [reg EXCEPT ![Program[ip].r] = Load64(mem, FileOff(EffAddr(rsp)))]
          /\ Fallthrough
     ELSE /\ UNCHANGED <<mem, reg>>
          /\ Fault
  /\ UNCHANGED <<rsp, rflags, routine, nops, last, prev, got, history, rest>>

\* pushfq
Pushfq ==
  /\ At("pushfq")
  /\ IF Mapped(Add64(rsp, MinusEight))
     THEN /\ rsp' = Add64(rsp, MinusEight)
          /\ mem' = Store64(mem, FileOff(Add64(rsp, MinusEight)),
                            Merge64(Zero64, rflags, PushfMask))
          /\ Fallthrough
     ELSE /\ UNCHANGED <<mem, rsp>>
          /\ Fault
  /\ UNCHANGED <<reg, rflags, routine, nops, last, prev, got, history, rest>>

\* push [ rsp - sd ] emulator.v_rflags: the operand address is computed with the
\* stack pointer the instruction starts with.
PushMem ==
  /\ At("push_mem")
  /\ IF Mapped(EffAddr(rsp)) /\ Mapped(Add64(rsp, MinusEight))
     THEN /\ rsp' = Add64(rsp, MinusEight)
          /\ mem' = Store64(mem, FileOff(Add64(rsp, MinusEight)),
                            Load64(mem, FileOff(EffAddr(rsp))))
          /\ Fallthrough
     ELSE /\ UNCHANGED <<mem, rsp>>
          /\ Fault
  /\ UNCHANGED <<reg, rflags, routine, nops, last, prev, got, history, rest>>

\* popfq
Popfq ==
  /\ At("popfq")
  /\ IF Mapped(rsp)
     THEN /\ rsp' = Add64(rsp, PlusEight)
          /\ rflags' = Merge64(rflags, Load64(mem, FileOff(rsp)), PopfMask)
          /\ Fallthrough
     ELSE /\ UNCHANGED <<rsp, rflags>>
          /\ Fault
  /\ UNCHANGED <<mem, reg, routine, nops, last, prev, got, history, rest>>

\* Faulty variant: the operand address is computed with the stack pointer before the increment.
PopMemEarlyAddress ==
  /\ At("pop_mem")
  /\ IF Mapped(rsp) /\ Mapped(EffAddr(rsp))
     THEN /\ rsp' = Add64(rsp, PlusEight)
          /\ mem' = Store64(mem, FileOff(EffAddr(rsp)), Load64(mem, FileOff(rsp)))
          /\ Fallthrough
     ELSE /\ UNCHANGED <<mem, rsp>>
          /\ Fault
  /\ UNCHANGED <<reg, rflags, routine, nops, last, prev, got, history, rest>>

\* pop [ rsp - sd ] emulator.v_rflags: the operand address is computed with the
\* stack pointer after the increment.
PopMem ==
  /\ At("pop_mem")
  /\ IF Mapped(rsp) /\ Mapped(EffAddr(Add64(rsp, PlusEight)))
     THEN /\ rsp' = Add64(rsp, PlusEight)
          /\ mem' = Store64(mem, FileOff(EffAddr(Add64(rsp, PlusEight))),
                            Load64(mem, FileOff(rsp)))
          /\ Fallthrough
     ELSE /\ UNCHANGED <<mem, rsp>>
          /\ Fault
  /\ UNCHANGED <<reg, rflags, routine, nops, last, prev, got, history, rest>>

\* call [ rsp - sd ] emulator.__rip
CallMem ==
  /\ At("call_mem")
  /\ IF /\ Mapped(EffAddr(rsp))
        /\ Mapped(Add64(rsp, MinusEight))
        /\ RoutineAt(Load64(mem, FileOff(EffAddr(rsp)))) # "none"
        /\ ~TrapFlag
     THEN /\ rsp' = Add64(rsp, MinusEight)
          /\ mem' = Store64(mem, FileOff(Add64(rsp, MinusEight)), CodeAddr(ip + 1))
          /\ routine' = RoutineAt(Load64(mem, FileOff(EffAddr(rsp))))
          /\ pc' = "routine"
          /\ ip' = 0
          /\ entry' = Snap(mem', reg, rsp', rflags)
     ELSE /\ UNCHANGED <<mem, rsp, routine, entry>>
          /\ Fault
  /\ UNCHANGED <<reg, rflags, nops, last, prev, got, pre, exit, rest>>

\* The body of the routine and its ret, which pops the return address. A store
\* beneath the file hits memory the emulator does not own: it lands there or faults.
RoutineRun ==
  /\ pc = "routine"
  /\ reg' = RoutineRegs(routine, reg)
  /\ rflags' = RoutineFlags(routine, rflags)
  /\ IF /\ RoutineMapped(routine, rsp)
        /\ Mapped(rsp)
        /\ CodeIndex(Load64(mem, FileOff(rsp))) \in 1..Len(Program)
     THEN \/ /\ mem' = RoutineMem(routine, mem, reg, rsp, Len(RoutineStores(routine)))
             /\ below' = RoutineBelow(routine, rsp)
             /\ rsp' = Add64(rsp, PlusEight)
             /\ pc' = "asm"
             /\ ip' = CodeIndex(Load64(mem', FileOff(rsp)))
             /\ exit' = Snap(mem', reg', rsp', rflags')
          \/ /\ RoutineBelow(routine, rsp) # {}
             /\ UNCHANGED <<mem, rsp, exit, below>>
             /\ Fault
     ELSE /\ UNCHANGED <<mem, rsp, exit, below>>
          /\ Fault
  /\ routine' = "none"
  /\ UNCHANGED <<nops, last, prev, got, pre, entry, others>>

\* mov rsp, [ rsp - sd ] emulator.__rsp
MovRspMem ==
  /\ At("mov_rsp_mem")
  /\ IF Mapped(EffAddr(rsp))
     THEN /\ rsp' = Load64(mem, FileOff(EffAddr(rsp)))
          /\ Fallthrough
     ELSE /\ rsp' = rsp
          /\ Fault
  /\ UNCHANGED <<mem, reg, rflags, routine, nops, last, prev, got, history, rest>>

Next ==
  \/ \E r \in TestRegs, v \in TestValues : Set(r, v)
  \/ \E r \in TestRegs : Get(r)
  \/ \E rt \in RoutineSet : Invoke(rt)
  \/ MovRaxRsp
  \/ MovRspThis
  \/ AddRspSd
  \/ MovMemRax
  \/ Xchg
  \/ Pushfq
  \/ PushMem
  \/ Popfq
  \/ PopMem
  \/ CallMem
  \/ RoutineRun
  \/ MovRspMem

Spec == Init /\ [][Next]_vars

\* ------------------------------------------------------------ two emulators on two threads
\* Two threads, each with its own hardware registers and its own stack, each working
\* on its own emulator object; the two objects lie next to each other in memory.
Threads == {1, 2}
HeapSize == 2 * FileSize
HeapOffs == 0..(HeapSize - 1)

\* Faulty variant: both threads work through one static object.
ThreadThisShared(i) == this

\* The `this` of the emulator thread i works on.
ThreadThis(i) == WordOf(ThisAddr + (i - 1) * FileSize)

\* Offset in the heap of the object of thread i.
Base(i) == IntOf(ThreadThis(i)) - ThisAddr
FileOf(i) == {Base(i) + o : o \in FileOffs}

\* Offset in the heap of the 8 bytes at address a, or -1 when they are not all in it.
HeapOff(a) ==
  LET n == IntOf(a) IN
  IF n >= ThisAddr /\ n + 8 <= ThisAddr + HeapSize THEN n - ThisAddr ELSE -1

\* What each thread does: set( reg, value ), invoke( routine ), get( RAX ).
ThreadCtx(i) == IF i = 1 THEN 0 ELSE 2
ThreadSetReg(i) == IF i = 1 THEN "RCX" ELSE "EDX"
ThreadSetValue(i) ==
  IF i = 1 THEN <<1, 2, 3, 4, 5, 6, 7, 8>> ELSE <<255, 255, 255, 255, 238, 221, 204, 187>>
ThreadGetReg == "RAX"
ThreadRoutines == {"lea_add", "home_args"}

ThreadStart(i, rt) ==
  [reg |-> CtxReg(ThreadCtx(i)), rsp |-> CtxRsp(ThreadCtx(i)),
   rflags |-> CtxFlags(ThreadCtx(i)), pc |-> "set", ip |-> 0, routine |-> "none",
   rt |-> rt, ret |-> Zero64]

HeapStart ==
  [o \in HeapOffs |-> IF o < FileSize THEN CtxMem(ThreadCtx(1))[o]
                                     ELSE CtxMem(ThreadCtx(2))[o - FileSize]]

\* The heap after the first n stores of the routine.
RECURSIVE ThreadRoutineMem(_, _, _, _, _)
ThreadRoutineMem(rt, h, g, s, n) ==
  IF n = 0 THEN h
  ELSE Store64(ThreadRoutineMem(rt, h, g, s, n - 1),
               HeapOff(RoutineStoreAddr(rt, s, n)),
               g[RoutineStores(rt)[n][2]])

\* The instruction at t.ip of the _asm block, executed by thread i with context t on
\* heap h: the context and the heap after it.
ThreadAsm(i, t, h) ==
  LET ins == Program[t.ip]
      ea(s) == Add64(s, WordOf(ins.disp))
      tf == Bit(t.rflags[2], 0) = 1
      fault == [t |-> [t EXCEPT !.pc = "fault", !.ip = 0], h |-> h]
      go(t2, h2) ==
        [t |-> IF tf THEN [t2 EXCEPT !.pc = "fault", !.ip = 0]
               ELSE IF t.ip = Len(Program) THEN [t2 EXCEPT !.pc = "get", !.ip = 0]
               ELSE [t2 EXCEPT !.ip = t.ip + 1],
         h |-> h2]
      down == Add64(t.rsp, MinusEight)
      up == Add64(t.rsp, PlusEight)
  IN  CASE ins.op = "mov_rax_rsp" -> go([t EXCEPT !.reg["rax"] = t.rsp], h)
        [] ins.op = "mov_rsp_this" -> go([t EXCEPT !.rsp = ThreadThis(i)], h)
        [] ins.op = "add_rsp_sd" ->
             go([t EXCEPT !.rsp = Add64(t.rsp, WordOf(sd)),
                          !.rflags = AddFlags(t.rflags, t.rsp, WordOf(sd))], h)
        [] ins.op = "mov_mem_rax" ->
             IF HeapOff(ea(t.rsp)) >= 0
             THEN go(t, Store64(h, HeapOff(ea(t.rsp)), t.reg[ins.r]))
             ELSE fault
        [] ins.op = "xchg" ->
             IF HeapOff(ea(t.rsp)) >= 0
             THEN go([t EXCEPT !.reg[ins.r] = Load64(h, HeapOff(ea(t.rsp)))],
                     Store64(h, HeapOff(ea(t.rsp)), t.reg[ins.r]))
             ELSE fault
        [] ins.op = "pushfq" ->
             IF HeapOff(down) >= 0
             THEN go([t EXCEPT !.rsp = down],
                     Store64(h, HeapOff(down), Merge64(Zero64, t.rflags, PushfMask)))
             ELSE fault
        [] ins.op = "push_mem" ->
             IF HeapOff(ea(t.rsp)) >= 0 /\ HeapOff(down) >= 0
             THEN go([t EXCEPT !.rsp = down],
                     Store64(h, HeapOff(down), Load64(h, HeapOff(ea(t.rsp)))))
             ELSE fault
        [] ins.op = "popfq" ->
             IF HeapOff(t.rsp) >= 0
             THEN go([t EXCEPT !.rsp = up,
                               !.rflags = Merge64(t.rflags, Load64(h, HeapOff(t.rsp)),
                                                  PopfMask)], h)
             ELSE fault
        [] ins.op = "pop_mem" ->
             IF HeapOff(t.rsp) >= 0 /\ HeapOff(ea(up)) >= 0
             THEN go([t EXCEPT !.rsp = up],
                     Store64(h, HeapOff(ea(up)), Load64(h, HeapOff(t.rsp))))
             ELSE fault
        [] ins.op = "call_mem" ->
             IF /\ HeapOff(ea(t.rsp)) >= 0
                /\ HeapOff(down) >= 0
                /\ RoutineAt(Load64(h, HeapOff(ea(t.rsp)))) # "none"
                /\ ~tf
             THEN [t |-> [t EXCEPT !.rsp = down, !.pc = "routine", !.ip = 0,
                                   !.routine = RoutineAt(Load64(h, HeapOff(ea(t.rsp))))],
                   h |-> Store64(h, HeapOff(down), CodeAddr(t.ip + 1))]
             ELSE fault
        [] ins.op = "mov_rsp_mem" ->
             IF HeapOff(ea(t.rsp)) >= 0
             THEN go([t EXCEPT !.rsp = Load64(h, HeapOff(ea(t.rsp)))], h)
             ELSE fault

\* The body of the routine thread context t is in, and its ret.
ThreadRoutine(t, h) ==
  LET stores == RoutineStores(t.routine)
      h2 == ThreadRoutineMem(t.routine, h, t.reg, t.rsp, Len(stores))
      t2 == [t EXCEPT !.reg = RoutineRegs(t.routine, t.reg),
                      !.rflags = RoutineFlags(t.routine, t.rflags),
                      !.routine = "none"]
  IN  IF /\ \A n \in 1..Len(stores) : HeapOff(RoutineStoreAddr(t.routine, t.rsp, n)) >= 0
         /\ HeapOff(t.rsp) >= 0
         /\ CodeIndex(Load64(h, HeapOff(t.rsp))) \in 1..Len(Program)
      THEN [t |-> [t2 EXCEPT !.rsp = Add64(t.rsp, PlusEight), !.pc = "asm",
                             !.ip = CodeIndex(Load64(h2, HeapOff(t.rsp)))],
            h |-> h2]
      ELSE [t |-> [t2 EXCEPT !.pc = "fault", !.ip = 0], h |-> h]

\* One step of thread i: the accessors work on the object at ThreadThis(i).
ThreadStep(i, t, h) ==
  CASE t.pc = "set" ->
         [t |-> [t EXCEPT !.pc = "invoke"],
          h |-> memcpy_to(h, Base(i) + resolve(ThreadSetReg(i)).off, ThreadSetValue(i),
                          resolve(ThreadSetReg(i)).sz)]
    [] t.pc = "invoke" ->
         [t |-> [t EXCEPT !.pc = "asm", !.ip = 1],
          h |-> Store64(h, Base(i) + off___rip, RoutinePointer(t.rt))]
    [] t.pc = "asm" -> ThreadAsm(i, t, h)
    [] t.pc = "routine" -> ThreadRoutine(t, h)
    [] t.pc = "get" ->
         [t |-> [t EXCEPT !.pc = "done",
                          !.ret = memcpy_from(h, Base(i) + resolve(ThreadGetReg).off,
                                              resolve(ThreadGetReg).sz)],
          h |-> h]
    [] OTHER -> [t |-> t, h |-> h]

Finished(t) == t.pc \in {"done", "fault"}

\* Thread i run to its end from context t on heap h, nothing else running.
RECURSIVE RunAlone(_, _, _)
RunAlone(i, t, h) ==
  IF Finished(t) THEN [t |-> t, h |-> h]
  ELSE LET r == ThreadStep(i, t, h) IN RunAlone(i, r.t, r.h)

InitThreads ==
  /\ InitEmulator(0)
  /\ NoHash
  /\ heap = HeapStart
  /\ \E rt1 \in ThreadRoutines, rt2 \in ThreadRoutines :
       /\ thr = [i \in Threads |-> ThreadStart(i, IF i = 1 THEN rt1 ELSE rt2)]
       /\ solo = [i \in Threads |->
                    RunAlone(i, ThreadStart(i, IF i = 1 THEN rt1 ELSE rt2), HeapStart)]

\* Thread i takes its next step.
ThreadTakes(i) ==
  /\ thr' = [thr EXCEPT ![i] = ThreadStep(i, thr[i], heap).t]
  /\ heap' = ThreadStep(i, thr[i], heap).h

ThreadSet(i) ==
  /\ thr[i].pc = "set"
  /\ ThreadTakes(i)
  /\ UNCHANGED <<emulator, solo, hash>>

ThreadInvoke(i) ==
  /\ thr[i].pc = "invoke"
  /\ ThreadTakes(i)
  /\ UNCHANGED <<emulator, solo, hash>>

ThreadInstruction(i) ==
  /\ thr[i].pc = "asm"
  /\ ThreadTakes(i)
  /\ UNCHANGED <<emulator, solo, hash>>

ThreadRoutineRun(i) ==
  /\ thr[i].pc = "routine"
  /\ ThreadTakes(i)
  /\ UNCHANGED <<emulator, solo, hash>>

ThreadGet(i) ==
  /\ thr[i].pc = "get"
  /\ ThreadTakes(i)
  /\ UNCHANGED <<emulator, solo, hash>>

NextThreads ==
  \/ \E i \in Threads : ThreadSet(i)
  \/ \E i \in Threads : ThreadInvoke(i)
  \/ \E i \in Threads : ThreadInstruction(i)
  \/ \E i \in Threads : ThreadRoutineRun(i)
  \/ \E i \in Threads : ThreadGet(i)

SpecThreads == InitThreads /\ [][NextThreads]_vars

\* ------------------------------------------------------------ hash_t (src/util/hashable.hpp)
\* value_t is std::array<size_t, 2>: a pair of 64-bit words, value[ 0 ] the first
\* element of the pair and value[ 1 ] the second.

\* a ^ b on bytes.
RECURSIVE XorBits(_, _, _)
XorBits(a, b, i) ==
  IF i > 7 THEN 0 ELSE (2 ^ i) * ((Bit(a, i) + Bit(b, i)) % 2) + XorBits(a, b, i + 1)

\* Column k of the long multiplication of the byte strings a and b: the sum of the
\* products a[j] * b[k + 1 - j] for j in 1..n.
RECURSIVE Column(_, _, _, _)
Column(a, b, k, n) ==
  IF n = 0 THEN 0
  ELSE (IF n <= Len(a) /\ k + 1 - n \in 1..Len(b) THEN a[n] * b[k + 1 - n] ELSE 0)
       + Column(a, b, k, n - 1)

\* Bytes k..n of the product of a and b, with the carry into column k.
RECURSIVE MulFrom(_, _, _, _, _)
MulFrom(a, b, k, n, carry) ==
  IF k > n THEN << >>
  ELSE <<(Column(a, b, k, k) + carry) % 256>>
       \o MulFrom(a, b, k + 1, n, (Column(a, b, k, k) + carry) \div 256)

\* The low n bytes of the product of the little-endian byte strings a and b.
Mul(a, b, n) == MulFrom(a, b, 1, n, 0)

\* The word w as a tuple of its 8 bytes.
Word(w) == <<w[1], w[2], w[3], w[4], w[5], w[6], w[7], w[8]>>

\* The two halves of a 128-bit product p.
Halves(p) == [lo |-> SubSeq(p, 1, 8), hi |-> SubSeq(p, 9, 16)]

\* _umul128( a, b, &hi ): the 128-bit product of two 64-bit words.
umul128(a, b) == Halves(Mul(a, b, 16))

\* a * b on uint64_t.
Mul64(a, b) == Mul(a, b, 8)

default_seed == << <<66, 1, 187, 7, 46, 39, 98, 108>>, <<141, 197, 149, 98, 117, 33, 184, 98>> >>
prime == << <<0, 0, 0, 1, 0, 0, 0, 0>>, <<59, 1, 0, 0, 0, 0, 0, 0>> >>

\* hash_t( size_t seed64 ) : value( { ~0ull, seed64 } )
Seed64(seed64) == << <<255, 255, 255, 255, 255, 255, 255, 255>>, seed64 >>

\* Faulty variant: the product of the low word and the high word of the prime is left out.
AppendByteNoCross(v, byte) ==
  LET la == [v[2] EXCEPT ![1] = XorBits(v[2][1], byte, 0)]
      ha == v[1]
      lb == prime[2]
      p == umul128(la, lb)
  IN  << Word(Add64(p.hi, Mul64(ha, lb))), p.lo >>

\* One round of the loop of operator<<: value[ 1 ] ^= byte, then value * prime.
AppendByte(v, byte) ==
  LET la == [v[2] EXCEPT ![1] = XorBits(v[2][1], byte, 0)]
      ha == v[1]
      hb == prime[1]
      lb == prime[2]
      p == umul128(la, lb)
  IN  << Word(Add64(Word(Add64(p.hi, Mul64(ha, lb))), Mul64(la, hb))), p.lo >>

\* hash_t::operator<<( item ) on value v: the loop over the first n bytes of the item.
RECURSIVE AppendBytes(_, _, _)
AppendBytes(v, bytes, n) ==
  IF n = 0 THEN v ELSE AppendByte(AppendBytes(v, bytes, n - 1), bytes[n])

\* The seeds hashes are constructed with, and the items appended (as their bytes in
\* memory: a uint8_t, a uint16_t, a uint32_t).
Seeds ==
  { default_seed,
    Seed64(<<0, 0, 0, 0, 0, 0, 0, 0>>),
    Seed64(<<255, 255, 255, 255, 255, 255, 255, 255>>) }
Items == { <<97>>, <<0>>, <<255>>, <<98, 99>>, <<1, 0, 0, 128>> }

InitHash ==
  /\ InitEmulator(0)
  /\ NoThreads
  /\ \E sd0 \in Seeds : hash = [value |-> sd0, seed |-> sd0, bytes |-> << >>, items |-> 0]

\* hash_t& operator<<( const T& item )
AppendItem(item) ==
  /\ hash.items < MaxItems
  /\ hash' = [hash EXCEPT !.value = AppendBytes(hash.value, item, Len(item)),
                          !.bytes = hash.bytes \o item,
                          !.items = hash.items + 1]
  /\ UNCHANGED <<emulator, heap, thr, solo>>

NextHash == \E item \in Items : AppendItem(item)

SpecHash == InitHash /\ [][NextHash]_vars

\* The 128-bit number value[0] * 2^64 + value[1], as 16 little-endian bytes.
Num128(v) == v[2] \o v[1]

\* 2^88 + 0x13B as 16 little-endian bytes.
FnvPrime128 == <<59, 1, 0, 0, 0, 0, 0, 0, 0, 0, 0, 1, 0, 0, 0, 0>>

\* x with its lowest byte XORed with byte.
XorLow(x, byte) == [x EXCEPT ![1] = XorBits(x[1], byte, 0)]

\* ((x XOR byte) * (2^88 + 0x13B)) mod 2^128, folded over the first n bytes.
RECURSIVE XorThenMultiply(_, _, _)
XorThenMultiply(x, bytes, n) ==
  IF n = 0 THEN x
  ELSE Mul(XorLow(XorThenMultiply(x, bytes, n - 1), bytes[n]), FnvPrime128, 16)

\* FNV-1: (x * (2^88 + 0x13B)) mod 2^128, then XOR byte, folded over the first n bytes.
RECURSIVE MultiplyThenXor(_, _, _)
MultiplyThenXor(x, bytes, n) ==
  IF n = 0 THEN x
  ELSE XorLow(Mul(MultiplyThenXor(x, bytes, n - 1), FnvPrime128, 16), bytes[n])

\* ------------------------------------------------------------ vocabulary of the properties
\* The 15 general purpose base registers the file hosts.
Supported15 == {"RAX", "RBX", "RCX", "RDX", "RSI", "RDI", "RBP", "R8", "R9", "R10",
                "R11", "R12", "R13", "R14", "R15"}

\* The full-width identifier of a hardware register.
FullId(r) == CHOOSE b \in DOMAIN SwitchBase : SwitchBase[b] = r

Supported(r) == resolve_mapping(r).base_reg \in Supported15

\* v mod 2^(8*w), zero-extended to 64 bits.
TruncZext(v, w) == [i \in ByteIdx |-> IF i <= w THEN v[i] ELSE 0]

\* V with bytes [o, o+w) replaced by the low w bytes of v2.
ReplaceBytes(V, o, w, v2) ==
  [i \in ByteIdx |-> IF i - 1 >= o /\ i - 1 < o + w THEN v2[i - o] ELSE V[i]]

\* The most recent operation is an invoke that ran to its last instruction.
Returned == pc = "caller" /\ last.op = "invoke"

\* The routine returned with the stack pointer at its entry value plus the popped
\* return address.
Balanced == exit.rsp = Add64(entry.rsp, PlusEight)

\* The routine left the saved-stack-pointer slot as it found it.
SavedRspKept == Load64(exit.mem, off___rsp) = Load64(entry.mem, off___rsp)

\* The routine left every slot of the file (all bytes above the scratch region) as it
\* found them.
SlotsKept == \A o \in FileOffs : o >= reserved_stack_size => exit.mem[o] = entry.mem[o]

\* The byte range resolve yields for a supported identifier lies inside one slot.
ResolvedRangeInOneSlot ==
  \A r \in RegIds :
    Supported(r) =>
      \E b \in GPRSet : /\ off_v(b) <= resolve(r).off
                         /\ resolve(r).off + resolve(r).sz <= off_v(b) + 8

\* resolve of an identifier with an unsupported base takes the fatal path.
UnsupportedResolveIsFatal == \A r \in RegIds : ~Supported(r) => resolve(r).fatal

\* Index in Program of the call instruction.
CallIp == CHOOSE i \in 1..Len(Program) : Program[i].op = "call_mem"

\* The routine of the most recent invoke has returned into the _asm block.
AfterRoutine == last.op = "invoke" /\ ((pc = "asm" /\ ip > CallIp) \/ pc = "caller")

\* One past the last byte of the scratch region: file_base + scratch_size.
ScratchEnd == Add64(this, WordOf(reserved_stack_size))

\* A step of set / of get, seen from the caller.
SetStep == pc = "caller" /\ nops' = nops + 1 /\ last'.op = "set"
GetStep == pc = "caller" /\ nops' = nops /\ got' # got

\* ------------------------------------------------------------ properties

\* C1: when control reaches the entry point of the routine, every one of the 15
\* hardware general purpose registers holds the value its slot held when invoke was
\* called; a full-width set that directly preceded invoke is what the routine sees.
C1_EntryRegistersAreSlots ==
  pc = "routine" =>
    /\ \A r \in GPRSet : reg[r] = Load64(pre.mem, off_v(r))
    /\ (prev.op = "set" /\ Supported(prev.reg) /\ resolve(prev.reg).sz = 8)
         => reg[SwitchBase[resolve_mapping(prev.reg).base_reg]] = prev.value

C1_Witness ==
  /\ pc = "routine"
  /\ prev.op = "set" /\ prev.reg = "RCX"
  /\ reg["rcx"] = prev.value
  /\ reg["rax"] # pre.reg["rax"]

\* C2: after invoke returned from a routine that kept the stack balanced and did not
\* write the slots, get of every full-width register returns what the hardware
\* register held when the routine returned, the flags slot holds the hardware flags of
\* that instant, and for the adding routine get(ret) is arg1 + arg2 mod 2^64.
C2_PostCallState ==
  (Returned /\ Balanced /\ SlotsKept) =>
    /\ \A r \in GPRSet : get(mem, FullId(r)) = exit.reg[r]
    /\ Load64(mem, off_v_rflags) = exit.rflags
    /\ (got.reg \in Supported15) => got.ret = exit.reg[SwitchBase[got.reg]]
    /\ (last.reg = "lea_add") =>
         /\ get(mem, "RAX") = Add64(get(pre.mem, "RCX"), get(pre.mem, "RDX"))
         /\ (prev.op = "set" /\ prev.reg = "RDX")
              => get(mem, "RAX") = Add64(get(pre.mem, "RCX"), prev.value)

C2_Witness ==
  /\ Returned /\ Balanced /\ SlotsKept
  /\ last.reg = "lea_add"
  /\ prev.op = "set" /\ prev.reg = "RDX"
  /\ get(pre.mem, "RCX") \in TestValues
  /\ get(pre.mem, "RCX") # prev.value
  /\ got.reg = "RAX"
  /\ got.ret = Add64(get(pre.mem, "RCX"), prev.value)

\* C3 (as claimed): after invoke returned from a routine that kept the stack
\* balanced, all 15 hardware general purpose registers, rax included, and the hardware
\* flags hold the values they held when invoke was called.
C3_AllRegistersRestored ==
  (Returned /\ Balanced) => (reg = pre.reg /\ rflags = pre.rflags)

\* C3 (amended): after invoke returned from a routine that kept the stack balanced
\* and did not write the slots, the 14 hardware general purpose registers other than
\* rax hold the values they held when invoke was called, and rax holds the stack
\* pointer invoke was called with.
C3_CallerRegistersRestored ==
  (Returned /\ Balanced /\ SlotsKept) =>
    /\ \A r \in GPRSet \ {"rax"} : reg[r] = pre.reg[r]
    /\ reg["rax"] = pre.rsp

C3_Witness ==
  /\ Returned /\ Balanced /\ SlotsKept
  /\ last.reg = "clobber"
  /\ exit.reg["rbx"] # pre.reg["rbx"]
  /\ reg["rbx"] = pre.reg["rbx"]
  /\ reg["rax"] # pre.reg["rax"]

\* C4 (as claimed): when the routine is entered the hardware flags equal the value
\* the flags slot held when invoke was called, and the flags slot holds the hardware
\* flags that were live just before the exchange (those left by add rsp, sd).
C4_FlagsExchangedOnEntry ==
  pc = "routine" =>
    /\ rflags = Load64(pre.mem, off_v_rflags)
    /\ Load64(mem, off_v_rflags) = AddFlags(pre.rflags, this, WordOf(sd))

\* C5: after every invoke of a routine that kept the stack balanced and did not write
\* the saved-stack-pointer slot, the stack pointer is the one invoke was called with.
C5_StackPointerRestored ==
  (Returned /\ Balanced /\ SavedRspKept) => rsp = pre.rsp

C5_Witness ==
  /\ Returned /\ Balanced /\ SavedRspKept
  /\ prev.op = "invoke"
  /\ entry.rsp # pre.rsp
  /\ rsp = pre.rsp

\* C6: invoke leaves a general purpose slot as it was when invoke was called if the
\* routine wrote neither the register nor the slot; a routine that only returns leaves
\* all 15 slots as they were, also when invokes follow one another.
C6_UnwrittenSlotsKept ==
  Returned =>
    /\ \A r \in GPRSet :
         (/\ exit.reg[r] = entry.reg[r]
          /\ Load64(exit.mem, off_v(r)) = Load64(entry.mem, off_v(r)))
         => Load64(mem, off_v(r)) = Load64(pre.mem, off_v(r))
    /\ (last.reg = "ret_only")
         => \A r \in GPRSet : Load64(mem, off_v(r)) = Load64(pre.mem, off_v(r))

C6_Witness ==
  /\ Returned
  /\ last.reg = "ret_only"
  /\ prev.op = "invoke" /\ prev.reg = "ret_only"
  /\ \A r \in GPRSet : Load64(mem, off_v(r)) = Load64(pre.mem, off_v(r))
  /\ \A r \in GPRSet : Load64(entry.mem, off_v(r)) # Load64(pre.mem, off_v(r))

\* C7: set(r, v) followed by get(r) returns v mod 2^(8*w) zero-extended, for every
\* identifier r of width w that resolves to one of the 15 bases.
C7_SetGetRoundTrip ==
  /\ (pc = "caller" /\ last.op = "set" /\ Supported(last.reg) /\ got.reg = last.reg)
       => got.ret = TruncZext(last.value, resolve_mapping(last.reg).size)
  /\ (last.op = "none")
       => \A r \in RegIds, v \in TestValues :
            Supported(r) => get(set(mem, r, v), r) = TruncZext(v, resolve_mapping(r).size)

C7_Witness ==
  /\ pc = "caller"
  /\ last.op = "set" /\ last.reg = "AH"
  /\ got.reg = "AH"
  /\ got.ret = [i \in ByteIdx |-> IF i = 1 THEN last.value[1] ELSE 0]
  /\ Load64(mem, off_v("rax"))[2] = last.value[1]

\* C8: set(full, V); set(lo, v2); get(full) is V with exactly the bytes [o, o+w) of
\* the alias replaced by the low w bytes of v2 (a 4-byte alias keeps the upper 4 bytes).
C8_AliasNonInterference ==
  (/\ pc = "caller"
   /\ prev.op = "set" /\ Supported(prev.reg) /\ resolve_mapping(prev.reg).size = 8
   /\ last.op = "set" /\ Supported(last.reg)
   /\ resolve_mapping(last.reg).base_reg = resolve_mapping(prev.reg).base_reg)
  =>
    /\ get(mem, prev.reg) = ReplaceBytes(prev.value, resolve_mapping(last.reg).offset,
                                         resolve_mapping(last.reg).size, last.value)
    /\ (got.reg = prev.reg)
         => got.ret = ReplaceBytes(prev.value, resolve_mapping(last.reg).offset,
                                   resolve_mapping(last.reg).size, last.value)

C8_Witness ==
  /\ pc = "caller"
  /\ prev.op = "set" /\ prev.reg = "RAX"
  /\ last.op = "set" /\ last.reg = "EAX"
  /\ prev.value # last.value
  /\ got.reg = "RAX"
  /\ \A i \in 1..4 : got.ret[i] = last.value[i]
  /\ \A i \in 5..8 : got.ret[i] = prev.value[i] /\ got.ret[i] # 0

\* C9: set changes only bytes inside the slot of the base register of its argument,
\* get changes no byte of the file, and the byte range resolve produces lies inside
\* one 8-byte slot (resolve reads no state: its ranges are examined on the steps of
\* a fresh file).
C9_AccessorFrame ==
  [][ /\ (SetStep /\ Supported(last'.reg)) =>
            LET slot == off_v(SwitchBase[resolve_mapping(last'.reg).base_reg])
            IN  \A o \in FileOffs : (o < slot \/ o >= slot + 8) => mem'[o] = mem[o]
      /\ GetStep => mem' = mem
      /\ (last.op = "none") => ResolvedRangeInOneSlot
    ]_vars

C9_Witness ==
  /\ pc = "caller"
  /\ last.op = "set" /\ last.reg = "AH"
  /\ Load64(mem, off_v("rax"))[2] = last.value[1]
  /\ got.reg = "RCX"

\* C10: resolve of an identifier whose base is not one of the 15 supported registers
\* (the stack pointer and the instruction pointer among them) takes the fatal path and
\* yields no offset, and set / get of it end on the fatal path without writing the file
\* (resolve reads no state: all identifiers are examined on the steps of a fresh file).
C10_UnsupportedIsFatal ==
  [][ /\ (last.op = "none") => UnsupportedResolveIsFatal
      /\ (SetStep /\ ~Supported(last'.reg)) => (pc' = "fatal" /\ mem' = mem)
      /\ (GetStep /\ ~Supported(got'.reg)) => (pc' = "fatal" /\ mem' = mem)
    ]_vars

C10_Witness ==
  /\ pc = "fatal"
  /\ last.op = "set" /\ last.reg = "RSP"
  /\ got = NoGet

\* C11 (as stated): an identifier that resolves to the flags register is a supported
\* argument of set and get: it resolves to the flags slot without the fatal path, and
\* set followed by get of it returns the value set.
C11_FlagsAliasAccepted ==
  (last.op = "set" /\ last.reg = "EFLAGS" /\ got.reg \in {"none", "EFLAGS"}) =>
    /\ pc = "caller"
    /\ Load64(mem, off_v_rflags) = last.value
    /\ (got.reg = "EFLAGS") => got.ret = last.value

\* C11 (amended): the switch of resolve has no case for the flags register, so set
\* and get of the flags identifier end on the fatal path, the file is not written and
\* get yields no value; the flags slot is reached through invoke only.
C11_FlagsAliasIsFatal ==
  [][ /\ (last.op = "none") => resolve("EFLAGS").fatal
      /\ (SetStep /\ last'.reg = "EFLAGS") => (pc' = "fatal" /\ mem' = mem)
      /\ (GetStep /\ got'.reg = "EFLAGS") => (pc' = "fatal" /\ mem' = mem)
    ]_vars

C11_Witness ==
  /\ pc = "fatal"
  /\ last.op = "set" /\ last.reg = "EFLAGS"
  /\ got = NoGet
  /\ Load64(mem, off_v_rflags) # last.value

\* C13 (as stated): for a routine whose frame depth fits the scratch region, the stack
\* bytes it writes (the reserved area above its return address included) lie inside
\* the scratch region: it is entered with the stack pointer inside the region, stores
\* nothing beneath the file and leaves every slot above the region as it found it.
C13_StackWritesInsideScratch ==
  /\ (pc = "routine" /\ RoutineDepth(routine) <= reserved_stack_size)
       => FileOff(rsp) \in 0..(reserved_stack_size - 8)
  /\ (AfterRoutine /\ RoutineDepth(last.reg) <= reserved_stack_size)
       => (SlotsKept /\ below = {})

\* C14 (as stated): the stack pointer is file_base + scratch_size at the call and when
\* the routine has returned; from the first exchange to the final restore the
\* saved-stack-pointer slot holds the caller's stack pointer and the instruction
\* pointer slot holds the entry point; the pushes of invoke itself change only the
\* top 16 bytes of the scratch region.
C14_StackDiscipline ==
  /\ (pc = "asm" /\ ip \in {CallIp, CallIp + 1}) => rsp = ScratchEnd
  /\ ((pc = "asm" /\ ip >= 5) \/ pc = "routine")
       => /\ Load64(mem, off___rsp) = pre.rsp
          /\ Load64(mem, off___rip) = last.value
  /\ ((pc = "asm" /\ ip \in 5..CallIp) \/ pc = "routine")
       => \A o \in 0..(reserved_stack_size - 17) : mem[o] = pre.mem[o]
  /\ (pc = "asm" /\ ip > CallIp)
       => \A o \in 0..(reserved_stack_size - 17) : mem[o] = exit.mem[o]

\* C15: get of an alias with byte offset o and width w returns bytes [o, o+w) of the
\* slot of its base register, zero-extended, whichever alias wrote the slot last; a
\* get that follows set(full, V) returns (V >> 8o) mod 2^(8w).
C15_CrossAliasRead ==
  (pc = "caller" /\ got.reg # "none" /\ Supported(got.reg)) =>
    LET a == resolve_mapping(got.reg)
        slot == Load64(mem, off_v(SwitchBase[a.base_reg]))
    IN  /\ got.ret = [i \in ByteIdx |-> IF i <= a.size THEN slot[i + a.offset] ELSE 0]
        /\ (last.op = "set" /\ last.reg = a.base_reg)
             => got.ret = [i \in ByteIdx |-> IF i <= a.size THEN last.value[i + a.offset]
                                                            ELSE 0]

C15_Witness ==
  /\ pc = "caller"
  /\ last.op = "set" /\ last.reg = "RAX"
  /\ got.reg = "AH"
  /\ got.ret = [i \in ByteIdx |-> IF i = 1 THEN last.value[2] ELSE 0]
  /\ last.value[2] # last.value[1]

\* C16 (as stated): a routine whose downward stack usage exceeds the scratch region
\* corrupts the register slots of the file.
C16_OverflowCorruptsSlots ==
  (AfterRoutine /\ RoutineDepth(last.reg) > reserved_stack_size) => ~SlotsKept

\* C16 (amended): the routine is entered with the stack pointer 8 bytes under
\* file_base + scratch_size, so the part of its stack usage that exceeds the scratch
\* region lies beneath file_base, outside the file; the slots, which lie above the
\* region, are not written by it.
C16_OverflowIsBeneathTheFile ==
  /\ pc = "routine" => rsp = Add64(ScratchEnd, MinusEight)
  /\ (AfterRoutine /\ RoutineDepth(last.reg) > reserved_stack_size)
       => /\ below # {}
          /\ \A o \in below : o < 0 /\ o >= reserved_stack_size - RoutineDepth(last.reg)
          /\ SlotsKept

C16_Witness ==
  /\ Returned
  /\ last.reg = "deep_frame"
  /\ below = (0 - 16)..(0 - 9)
  /\ Load64(exit.mem, reserved_stack_size - 16) = Load64(pre.mem, off_v("rdx"))
  /\ SlotsKept

\* C12: two threads, each on its own emulator: in every interleaving a thread that has
\* finished holds the hardware context, and its object the contents, that the thread
\* reaches when it runs alone; a step of one thread changes neither the context of the
\* other thread nor a byte of the other object.
C12_InstanceIndependence ==
  [][ \A i \in Threads :
        /\ Finished(thr'[i]) =>
             /\ thr'[i] = solo[i].t
             /\ \A o \in FileOf(i) : heap'[o] = solo[i].h[o]
        /\ (thr'[i] # thr[i]) =>
             /\ thr'[3 - i] = thr[3 - i]
             /\ \A o \in FileOf(3 - i) : heap'[o] = heap[o]
    ]_vars

C12_Witness ==
  /\ thr # << >>
  /\ \A i \in Threads : thr[i].pc = "done" /\ thr[i].rt = "lea_add"
  /\ thr[1].ret = Add64(ThreadSetValue(1), Load64(HeapStart, Base(1) + off_v("rdx")))
  /\ \A i \in Threads : \E o \in FileOf(i) : heap[o] # HeapStart[o]

\* C17: after every append the value, read as value[0] * 2^64 + value[1], is the seed
\* taken through ((state XOR byte) * (2^88 + 0x13B)) mod 2^128 for each appended byte:
\* the split multiplication of operator<< loses nothing.
C17_ExactMultiplication ==
  Num128(hash.value) = XorThenMultiply(Num128(hash.seed), hash.bytes, Len(hash.bytes))

C17_Witness ==
  /\ hash.seed = default_seed
  /\ hash.bytes = <<97>>
  /\ hash.value = << <<175, 140, 26, 111, 105, 203, 40, 210>>,
                     <<100, 137, 74, 78, 112, 43, 145, 120>> >>

\* C18 (as stated): operator<< applies FNV-1: for each byte the state is multiplied by
\* the prime first and XORed with the byte afterwards, starting from the seed.
C18_MultiplyThenXor ==
  Num128(hash.value) = MultiplyThenXor(Num128(hash.seed), hash.bytes, Len(hash.bytes))

====
